---- MODULE Spec2Model ----
(***************************************************************************)
(* Model of the movie-ratings Flask application ("VS CODE/mini project.py") *)
(* and of the one-shot iris script ("flower ide/iris-classifier.py").       *)
(*                                                                         *)
(* Threads: thread 0 is the __main__ block (or the WSGI import), threads   *)
(* 1..NReq are POST /analyze requests; app.run (line 96) and the WSGI      *)
(* server of .ebextensions serve each request in a thread of its own.      *)
(* Every call into matplotlib.pyplot is one step, because pyplot keeps one *)
(* process-wide list of open figures whose last element is the "current    *)
(* figure" that plt.savefig, plt.close and the seaborn calls act on.        *)
(*                                                                         *)
(* The model is of the statements of lines 1-96.  (The file as it stands   *)
(* ends, at line 194, in a stray "." after the last docstring, which       *)
(* Python rejects; the model describes the program without it.)            *)
(*                                                                         *)
(* Three specifications:                                                   *)
(*   Spec      the served application: __main__ or the WSGI import, then   *)
(*             NReq concurrent POST /analyze requests;                     *)
(*   SpecData  load_and_preprocess_data, the filter and analyze_ratings     *)
(*             applied to every CSV of CSVs and every form of AllForms;    *)
(*   SpecIris  the iris script.                                            *)
(***************************************************************************)
EXTENDS Integers, Sequences, FiniteSets, TLC

VARIABLES
    csv,          \* the rows of path/to/imdb_dataset.csv (cell texts)
    pc,           \* pc[t]: where thread t stands, [at |-> label, k |-> chart number]
    exc,          \* exc[t]: the exception that ended thread t, "" if none
    form,         \* form[t]: request.form of request t
    df,           \* df[t]: local df of analyze / __main__
    filtered_df,  \* filtered_df[t]: local filtered_df of analyze
    ratings,      \* ratings[t]: <<result of analyze_ratings>> once computed
    page,         \* page[t]: <<rendered results.html>> once rendered
    saved,        \* saved[t]: the paths thread t has written with savefig
    trace,        \* trace[t]: the pipeline stages thread t has completed, in order
    created,      \* created[t]: thread t ran os.makedirs successfully
    dirExists,    \* the directory static/ exists
    files,        \* files[path]: <<content>> of the chart file, <<>> if absent
    figs,         \* pyplot's open figures, oldest first; the last is current;
                  \* a figure is the set of the drawings made on it
    iris          \* state of the iris script

vars == <<csv, pc, exc, form, df, filtered_df, ratings, page, saved, trace,
          created, dirExists, files, figs, iris>>

(***************************************************************************)
(* Bounds                                                                  *)
(***************************************************************************)
NReq == 2
MaxRows == 3
MaxVote == 2

Main == 0
Req == 1 .. NReq
Threads == {Main} \cup Req

(***************************************************************************)
(* CSV cells and pandas values                                             *)
(***************************************************************************)
\* float NaN in a numeric column
NaN == -1
\* a missing cell of an object column (pandas stores NaN there)
Missing == "<NaN>"
\* the mean of no numbers
NaNMean == [num |-> 0, den |-> 0]

Votes == 0 .. MaxVote

Row(v, g, c) == [vote_average |-> v, genre |-> g, country |-> c]

\* rows the CSV files are made of: cell texts as they stand in the file
RowPool ==
    { Row("1", "Drama", "USA"),
      Row("2", "Drama", "United States"),
      Row("2", "Comedy", "United Kingdom"),
      Row("1", "Comedy", "USA"),
      Row("2", "Drama", "United Kingdom"),
      Row("abc", "Drama", "USA"),
      Row("abc", "Comedy", "United Kingdom"),
      Row("", "Drama", "United States"),
      Row("2", "NA", "USA"),
      Row("1", "Comedy", "") }

SeqsUpTo(S, n) == UNION { [1 .. m -> S] : m \in 0 .. n }

CSVs == SeqsUpTo(RowPool, MaxRows)

\* the cell texts pd.read_csv reads as NaN by default
na_values ==
    {"", "#N/A", "#N/A N/A", "#NA", "-1.#IND", "-1.#QNAN", "-NaN", "-nan",
     "1.#IND", "1.#QNAN", "<NA>", "N/A", "NA", "NULL", "NaN", "n/a", "nan", "null"}

ReadCell(s) == IF s \in na_values THEN Missing ELSE s

read_csv(file) ==
    [i \in 1 .. Len(file) |->
        [idx |-> i,
         vote_average |-> ReadCell(file[i].vote_average),
         genre |-> ReadCell(file[i].genre),
         country |-> ReadCell(file[i].country)]]

NotNa(row) ==
    /\ row.vote_average # Missing
    /\ row.genre # Missing
    /\ row.country # Missing

\* df.dropna(subset=['vote_average', 'genre', 'country'])
dropna(d) == SelectSeq(d, NotNa)

\* pd.to_numeric(..., errors='coerce') on one cell
to_numeric(s) ==
    IF \E n \in Votes : ToString(n) = s
    THEN CHOOSE n \in Votes : ToString(n) = s
    ELSE NaN

\* replace_country with the second entry of the mapping left out
replace_country_one_entry(c) ==
    CASE c = "United States" -> "USA"
      [] OTHER -> c

\* .replace({'United States': 'USA', 'United Kingdom': 'UK'}) on one cell
replace_country(c) ==
    CASE c = "United States" -> "USA"
      [] c = "United Kingdom" -> "UK"
      [] OTHER -> c

load_and_preprocess_data(file) ==
    LET d1 == dropna(read_csv(file))
        d2 == [i \in 1 .. Len(d1) |->
                 [d1[i] EXCEPT !.vote_average = to_numeric(d1[i].vote_average)]]
    IN  [i \in 1 .. Len(d2) |->
           [d2[i] EXCEPT !.country = replace_country(d2[i].country)]]

(***************************************************************************)
(* groupby(...).mean() and pivot_table(..., aggfunc='mean')                *)
(***************************************************************************)
RECURSIVE GCD(_, _)
GCD(a, b) == IF b = 0 THEN a ELSE GCD(b, a % b)

RECURSIVE SumVotes(_)
SumVotes(d) ==
    IF d = <<>> THEN 0
    ELSE (IF Head(d).vote_average = NaN THEN 0 ELSE Head(d).vote_average)
         + SumVotes(Tail(d))

IsNumber(row) == row.vote_average # NaN

\* Mean dividing by the number of rows, NaN ratings included
MeanOverAllRows(d) ==
    LET n == Len(d)
        s == SumVotes(d)
        g == GCD(s, n)
    IN  IF n = 0 THEN NaNMean ELSE [num |-> s \div g, den |-> n \div g]

\* Series.mean(): NaN values are skipped; the mean of none is NaN
Mean(d) ==
    LET n == Len(SelectSeq(d, IsNumber))
        s == SumVotes(d)
        g == GCD(s, n)
    IN  IF n = 0 THEN NaNMean ELSE [num |-> s \div g, den |-> n \div g]

Keys(d, col) == { d[i][col] : i \in 1 .. Len(d) }

\* df.groupby(col)['vote_average'].mean() as the mapping to_dict() gives
\* (sort_values only orders its entries)
GroupMean(d, col) ==
    [k \in Keys(d, col) |->
        LET Has(row) == row[col] = k IN Mean(SelectSeq(d, Has))]

PairMean(d, g, c) ==
    LET Has(row) == row.genre = g /\ row.country = c IN Mean(SelectSeq(d, Has))

\* df.pivot_table(values='vote_average', index='genre', columns='country',
\* aggfunc='mean'): group means per (genre, country), all-NaN groups dropped,
\* then unstacked into a genre x country table whose other cells are NaN
pivot_table(d) ==
    LET pairs == { <<d[i].genre, d[i].country>> : i \in 1 .. Len(d) }
        kept == { p \in pairs : PairMean(d, p[1], p[2]) # NaNMean }
        index == { p[1] : p \in kept }
        columns == { p[2] : p \in kept }
    IN  [p \in index \X columns |->
            IF p \in kept THEN PairMean(d, p[1], p[2]) ELSE NaNMean]

analyze_ratings(d) ==
    [genre_ratings |-> GroupMean(d, "genre"),
     country_ratings |-> GroupMean(d, "country"),
     genre_country_ratings |-> pivot_table(d)]

(***************************************************************************)
(* analyze: the form and the filter                                        *)
(***************************************************************************)
\* request.form.get(name): <<>> is None (field absent), <<s>> the text s
None == <<>>
Truthy(v) == v # None /\ v[1] # ""

GenreFields == {None, <<"">>, <<"Drama">>, <<"Comedy">>, <<"Horror">>}
CountryFields ==
    {None, <<"">>, <<"USA">>, <<"UK">>, <<"United States">>, <<"United Kingdom">>}
AllForms == [genre : GenreFields, country : CountryFields]

NoForm == [genre |-> None, country |-> None]

\* Filter whose country test is applied to df, not to the genre-filtered rows
FilterCountryOnUnfiltered(d, f) ==
    LET GenreIs(row) == row.genre = f.genre[1]
        CountryIs(row) == row.country = f.country[1]
        d1 == IF Truthy(f.genre) THEN SelectSeq(d, GenreIs) ELSE d
    IN  IF Truthy(f.country) THEN SelectSeq(d, CountryIs) ELSE d1

Filter(d, f) ==
    LET GenreIs(row) == row.genre = f.genre[1]
        CountryIs(row) == row.country = f.country[1]
        d1 == IF Truthy(f.genre) THEN SelectSeq(d, GenreIs) ELSE d
    IN  IF Truthy(f.country) THEN SelectSeq(d1, CountryIs) ELSE d1

\* lines 75-81 of analyze: the locals filtered_df and the three tables
AnalyzeLocals(d, f) ==
    LET fd == Filter(d, f)
    IN  [filtered_df |-> fd, ratings |-> analyze_ratings(fd)]

(***************************************************************************)
(* results.html                                                            *)
(***************************************************************************)
\* {{ rating | round(2) }}: the mean in hundredths, NaN stays NaN
round2(m) ==
    IF m = NaNMean THEN NaN ELSE (200 * m.num + m.den) \div (2 * m.den)

RoundAll(table) == [k \in DOMAIN table |-> round2(table[k])]

ChartName(k) ==
    CASE k = 1 -> "genre_ratings.png"
      [] k = 2 -> "genre_country_heatmap.png"
      [] k = 3 -> "genre_boxplot.png"

\* ChartPath with the box plot saved under another name than the page links
ChartPathMisnamed(k) == "static/" \o (IF k = 3 THEN "boxplot.png" ELSE ChartName(k))

\* os.path.join(output_dir, name) with output_dir = 'static'
ChartPath(k) == "static/" \o ChartName(k)

Charts == 1 .. 3
Paths == { ChartPath(k) : k \in Charts }

\* the keyword arguments analyze passes to render_template
TemplateContext(r) ==
    [genre_ratings |-> r.genre_ratings,
     country_ratings |-> r.country_ratings,
     genre_country_ratings |-> r.genre_country_ratings,
     genre_plot |-> "static/genre_ratings.png",
     heatmap_plot |-> "static/genre_country_heatmap.png",
     boxplot_plot |-> "static/genre_boxplot.png"]

\* what templates/results.html shows of its context: two lists and three
\* <img> elements (genre_country_ratings is passed but not shown)
results_html(ctx) ==
    [genre_ratings |-> RoundAll(ctx.genre_ratings),
     country_ratings |-> RoundAll(ctx.country_ratings),
     images |-> <<ctx.genre_plot, ctx.heatmap_plot, ctx.boxplot_plot>>]

(***************************************************************************)
(* generate_plots: what each chart draws                                   *)
(***************************************************************************)
ChartKind(k) ==
    CASE k = 1 -> "barplot" [] k = 2 -> "heatmap" [] k = 3 -> "boxplot"

ChartData(k, d) ==
    CASE k = 1 -> GroupMean(d, "genre")
      [] k = 2 -> pivot_table(d)
      [] k = 3 -> { <<d[i].idx, d[i].genre, d[i].vote_average>> : i \in 1 .. Len(d) }

ChartDraw(k, d) == [kind |-> ChartKind(k), data |-> ChartData(k, d)]

\* sns.heatmap takes the minimum of its data and raises ValueError on an
\* empty table; whether sns.barplot accepts empty data is left open
DrawOutcomes(k, d) ==
    CASE k = 1 -> IF d = <<>> THEN {"ok", "ValueError"} ELSE {"ok"}
      [] k = 2 -> IF DOMAIN pivot_table(d) = {} THEN {"ValueError"} ELSE {"ok"}
      [] k = 3 -> {"ok"}

\* pyplot.gcf() / gca(): the current figure, opened first if none is open
Gcf(fs) == IF fs = <<>> THEN << {} >> ELSE fs

At(label, k) == [at |-> label, k |-> k]

(***************************************************************************)
(* Inputs of the served application                                        *)
(***************************************************************************)
\* the CSV files behind the running server: one with no row, one whose only
\* rating is not a number, one with ratings
ServedCSVs ==
    { <<>>,
      << Row("abc", "Drama", "USA") >>,
      << Row("1", "Drama", "United States"), Row("2", "Comedy", "United Kingdom") >> }

\* the forms posted to the running server
Forms ==
    { NoForm,
      [genre |-> <<"Drama">>, country |-> None],
      [genre |-> <<"">>, country |-> <<"United States">>] }

IrisStart ==
    [pc |-> "load", X |-> <<>>, y |-> <<>>, test |-> {}, fitted |-> {},
     y_pred |-> <<>>, accuracy |-> <<>>, stdout |-> <<>>, trace |-> <<>>]

InitApp ==
    /\ pc = [t \in Threads |-> At("idle", 0)]
    /\ exc = [t \in Threads |-> ""]
    /\ form = [t \in Threads |-> NoForm]
    /\ df = [t \in Threads |-> <<>>]
    /\ filtered_df = [t \in Threads |-> <<>>]
    /\ ratings = [t \in Threads |-> <<>>]
    /\ page = [t \in Threads |-> <<>>]
    /\ saved = [t \in Threads |-> {}]
    /\ trace = [t \in Threads |-> <<>>]
    /\ created = [t \in Threads |-> FALSE]
    /\ dirExists = FALSE
    /\ files = [p \in Paths |-> <<>>]
    /\ figs = <<>>

Init ==
    /\ csv \in ServedCSVs
    /\ InitApp
    /\ iris = IrisStart

(***************************************************************************)
(* Steps of __main__ and of analyze                                        *)
(***************************************************************************)
\* the order of the statements of analyze: line 71 is followed by
\* generate_plots (line 72), generate_plots by the filter and analyze_ratings
\* (lines 75-81), these by render_template (lines 83-91)
\* analyze going from the load straight to the filter
AfterLoadSkipsPlots == "filter"

AfterLoad == "exists"
AfterPlots == "filter"
AfterAnalysis == "render"

Goto(t, label, k) == pc' = [pc EXCEPT ![t] = At(label, k)]

Raise(t, e) ==
    /\ pc' = [pc EXCEPT ![t] = At("raised", pc[t].k)]
    /\ exc' = [exc EXCEPT ![t] = e]

\* gunicorn imports main:app: the __main__ block does not run
Import ==
    /\ pc[Main].at = "idle"
    /\ Goto(Main, "serving", 0)
    /\ UNCHANGED <<csv, exc, form, df, filtered_df, ratings, page, saved, trace, created,
                   dirExists, files, figs, iris>>

\* Load catching the exception of pd.read_csv and going on with an empty frame
LoadSwallowsError(t) ==
    /\ pc[t].at = "idle"
    /\ t # Main => pc[Main].at = "serving"
    /\ \E ok \in BOOLEAN :
          IF ok
          THEN /\ df' = [df EXCEPT ![t] = load_and_preprocess_data(csv)]
               /\ trace' = [trace EXCEPT ![t] = Append(@, "load")]
               /\ UNCHANGED exc
          ELSE /\ exc' = [exc EXCEPT ![t] = "FileNotFoundError"]
               /\ UNCHANGED <<df, trace>>
    /\ Goto(t, "exists", 0)
    /\ UNCHANGED <<csv, form, filtered_df, ratings, page, saved, created,
                   dirExists, files, figs, iris>>

\* line 71 (analyze) and line 94 (__main__): load the CSV; pd.read_csv raises
\* when the file cannot be read.  A request is served once app.run (line 96)
\* or the WSGI server has the application.
Load(t) ==
    /\ pc[t].at = "idle"
    /\ t # Main => pc[Main].at = "serving"
    /\ \E ok \in BOOLEAN :
          IF ok
          THEN /\ df' = [df EXCEPT ![t] = load_and_preprocess_data(csv)]
               /\ trace' = [trace EXCEPT ![t] = Append(@, "load")]
               /\ Goto(t, IF t = Main THEN "exists" ELSE AfterLoad, 0)
               /\ UNCHANGED exc
          ELSE /\ Raise(t, "FileNotFoundError")
               /\ UNCHANGED <<df, trace>>
    /\ UNCHANGED <<csv, form, filtered_df, ratings, page, saved, created,
                   dirExists, files, figs, iris>>

\* line 31: if not os.path.exists(output_dir)
Exists(t) ==
    /\ pc[t].at = "exists"
    /\ IF dirExists THEN Goto(t, "figure", 1) ELSE Goto(t, "makedirs", 0)
    /\ UNCHANGED <<csv, exc, form, df, filtered_df, ratings, page, saved, trace, created,
                   dirExists, files, figs, iris>>

\* line 32: os.makedirs(output_dir) raises when the directory exists by now
Makedirs(t) ==
    /\ pc[t].at = "makedirs"
    /\ IF dirExists
       THEN /\ Raise(t, "FileExistsError")
            /\ UNCHANGED <<dirExists, created>>
       ELSE /\ dirExists' = TRUE
            /\ created' = [created EXCEPT ![t] = TRUE]
            /\ Goto(t, "figure", 1)
            /\ UNCHANGED exc
    /\ UNCHANGED <<csv, form, df, filtered_df, ratings, page, saved, trace,
                   files, figs, iris>>

\* lines 36, 46, 53: plt.figure(...) opens a figure and makes it current
Figure(t) ==
    /\ pc[t].at = "figure"
    /\ figs' = Append(figs, {})
    /\ Goto(t, "draw", pc[t].k)
    /\ UNCHANGED <<csv, exc, form, df, filtered_df, ratings, page, saved, trace, created,
                   dirExists, files, iris>>

\* the dataframe generate_plots is called with (lines 72 and 95)
PlotFrame(t) == df[t]

\* lines 35-40, 45-48, 54-56: compute the chart's data and draw it on the
\* current figure
Draw(t) ==
    /\ pc[t].at = "draw"
    /\ \E out \in DrawOutcomes(pc[t].k, PlotFrame(t)) :
          IF out = "ok"
          THEN /\ figs' = [Gcf(figs) EXCEPT ![Len(Gcf(figs))] =
                              @ \cup {ChartDraw(pc[t].k, PlotFrame(t))}]
               /\ Goto(t, "savefig", pc[t].k)
               /\ UNCHANGED exc
          ELSE /\ Raise(t, out)
               /\ UNCHANGED figs
    /\ UNCHANGED <<csv, form, df, filtered_df, ratings, page, saved, trace, created,
                   dirExists, files, iris>>

\* lines 41, 49, 57: plt.savefig(path) writes the current figure
Savefig(t) ==
    /\ pc[t].at = "savefig"
    /\ LET fs == Gcf(figs)
           path == ChartPath(pc[t].k)
       IN  /\ figs' = fs
           /\ files' = [files EXCEPT ![path] = << fs[Len(fs)] >>]
           /\ saved' = [saved EXCEPT ![t] = @ \cup {path}]
           /\ trace' = [trace EXCEPT ![t] = Append(@, "plot")]
    /\ Goto(t, "close", pc[t].k)
    /\ UNCHANGED <<csv, exc, form, df, filtered_df, ratings, page, created,
                   dirExists, iris>>

\* lines 42, 50, 58: plt.close() closes the current figure, if any; after the
\* third chart __main__ goes on to app.run and analyze to its filter
Close(t) ==
    /\ pc[t].at = "close"
    /\ figs' = IF figs = <<>> THEN <<>> ELSE SubSeq(figs, 1, Len(figs) - 1)
    /\ IF pc[t].k < 3
       THEN Goto(t, "figure", pc[t].k + 1)
       ELSE IF t = Main THEN Goto(t, "serving", 0) ELSE Goto(t, AfterPlots, 0)
    /\ UNCHANGED <<csv, exc, form, df, filtered_df, ratings, page, saved, trace, created,
                   dirExists, files, iris>>

\* lines 69-70 and 75-81: filter by the form, then analyze_ratings(filtered_df).
\* request.form is the request's own immutable input; its two reads are
\* modelled here, where the values are first used.
FilterAnalyze(t) ==
    /\ pc[t].at = "filter"
    /\ \E f \in Forms :
         LET loc == AnalyzeLocals(df[t], f)
         IN  /\ form' = [form EXCEPT ![t] = f]
             /\ filtered_df' = [filtered_df EXCEPT ![t] = loc.filtered_df]
             /\ ratings' = [ratings EXCEPT ![t] = << loc.ratings >>]
    /\ trace' = [trace EXCEPT ![t] = Append(@, "group")]
    /\ Goto(t, AfterAnalysis, 0)
    /\ UNCHANGED <<csv, exc, df, page, saved, created,
                   dirExists, files, figs, iris>>

\* lines 83-91: render_template('results.html', ...)
Render(t) ==
    /\ pc[t].at = "render"
    /\ page' = [page EXCEPT ![t] = << results_html(TemplateContext(ratings[t][1])) >>]
    /\ trace' = [trace EXCEPT ![t] = Append(@, "serve")]
    /\ Goto(t, "done", 0)
    /\ UNCHANGED <<csv, exc, form, df, filtered_df, ratings, saved, created,
                   dirExists, files, figs, iris>>

(***************************************************************************)
(* The data functions applied to every CSV and form of the bounded sets     *)
(***************************************************************************)
InitData ==
    /\ csv \in CSVs
    /\ InitApp
    /\ iris = IrisStart

ApplyLoad ==
    /\ pc[1].at = "idle"
    /\ df' = [df EXCEPT ![1] = load_and_preprocess_data(csv)]
    /\ Goto(1, "loaded", 0)
    /\ UNCHANGED <<csv, exc, form, filtered_df, ratings, page, saved, trace, created,
                   dirExists, files, figs, iris>>

ApplyAnalyze ==
    /\ pc[1].at = "loaded"
    /\ \E f \in AllForms :
         LET loc == AnalyzeLocals(df[1], f)
         IN  /\ form' = [form EXCEPT ![1] = f]
             /\ filtered_df' = [filtered_df EXCEPT ![1] = loc.filtered_df]
             /\ ratings' = [ratings EXCEPT ![1] = << loc.ratings >>]
    /\ Goto(1, "analyzed", 0)
    /\ UNCHANGED <<csv, exc, df, page, saved, trace, created,
                   dirExists, files, figs, iris>>

NextData == ApplyLoad \/ ApplyAnalyze

SpecData == InitData /\ [][NextData]_vars

Next ==
    \/ Import
    \/ \E t \in Threads : Load(t)
    \/ \E t \in Threads : Exists(t)
    \/ \E t \in Threads : Makedirs(t)
    \/ \E t \in Threads : Figure(t)
    \/ \E t \in Threads : Draw(t)
    \/ \E t \in Threads : Savefig(t)
    \/ \E t \in Threads : Close(t)
    \/ \E t \in Req : FilterAnalyze(t)
    \/ \E t \in Req : Render(t)

Spec == Init /\ [][Next]_vars

(***************************************************************************)
(* iris-classifier.py                                                      *)
(***************************************************************************)
\* the canned dataset: one feature per sample, three classes of five samples
\* (load_iris has four features and three classes of fifty)
IrisX == <<1, 2, 3, 2, 1, 5, 6, 7, 6, 4, 8, 9, 10, 7, 9>>
IrisY == <<0, 0, 0, 0, 0, 1, 1, 1, 1, 1, 2, 2, 2, 2, 2>>

\* test_size=0.2, as a percentage
test_size == 20
n_neighbors == 3

\* train_test_split puts ceil(test_size * n) samples in the test set
TestCount(n) == (n * test_size + 99) \div 100

Dist(X, i, j) == IF X[i] >= X[j] THEN X[i] - X[j] ELSE X[j] - X[i]

\* the sets of n_neighbors training samples nearest to sample i (several when
\* distances tie)
Neighbours(X, train, i) ==
    { S \in SUBSET train :
        /\ Cardinality(S) = n_neighbors
        /\ \A a \in S, b \in train \ S : Dist(X, i, a) <= Dist(X, i, b) }

\* majority vote of the neighbours; the smallest class wins a tie
Vote(y, S) ==
    LET Count(c) == Cardinality({ j \in S : y[j] = c })
        classes == { y[j] : j \in S }
    IN  CHOOSE c \in classes :
            \A d \in classes : Count(d) < Count(c) \/ (Count(d) = Count(c) /\ c <= d)

Predictions(X, y, train, i) == { Vote(y, S) : S \in Neighbours(X, train, i) }

\* Percent2f without the factor 100 of accuracy*100
FractionNotPercent(correct, total) == (2 * correct * 100 + total) \div (2 * total)

\* f'{accuracy*100:.2f}' for accuracy = correct / total, in hundredths of a
\* percent (no value of the bounded model lies halfway between two of them)
Percent2f(correct, total) == (2 * correct * 10000 + total) \div (2 * total)

IrisStep(label, next) ==
    [iris EXCEPT !.pc = next, !.trace = Append(@, label)]

IrisIdle ==
    UNCHANGED <<csv, pc, exc, form, df, filtered_df, ratings, page, saved, trace,
                created, dirExists, files, figs>>

\* lines 8-10
IrisLoad ==
    /\ iris.pc = "load"
    /\ iris' = [IrisStep("load", "split") EXCEPT !.X = IrisX, !.y = IrisY]
    /\ IrisIdle

\* line 13: the shuffle of random_state=42 is some fixed choice of the test set
IrisSplit ==
    /\ iris.pc = "split"
    /\ \E T \in SUBSET (1 .. Len(iris.X)) :
          /\ Cardinality(T) = TestCount(Len(iris.X))
          /\ iris' = [IrisStep("split", "fit") EXCEPT !.test = T]
    /\ IrisIdle

\* lines 16-17: fit keeps the training samples
IrisFit ==
    /\ iris.pc = "fit"
    /\ iris' = [IrisStep("fit", "score") EXCEPT
                   !.fitted = (1 .. Len(iris.X)) \ iris.test]
    /\ IrisIdle

\* line 20: score is the fraction of test samples whose prediction is their label
IrisScore ==
    /\ iris.pc = "score"
    /\ \E pred \in [iris.test -> 0 .. 2] :
          /\ \A i \in iris.test :
                pred[i] \in Predictions(iris.X, iris.y, iris.fitted, i)
          /\ iris' = [IrisStep("score", "print") EXCEPT
                         !.y_pred = pred,
                         !.accuracy =
                             << [correct |-> Cardinality({ i \in iris.test : pred[i] = iris.y[i] }),
                                 total |-> Cardinality(iris.test)] >>]
    /\ IrisIdle

\* line 21
IrisPrint ==
    /\ iris.pc = "print"
    /\ iris' = [IrisStep("print", "exit") EXCEPT
                   !.stdout = Append(@,
                       [text |-> "Accuracy: ",
                        hundredths |-> Percent2f(iris.accuracy[1].correct,
                                                 iris.accuracy[1].total),
                        unit |-> "%"])]
    /\ IrisIdle

InitIris ==
    /\ csv = <<>>
    /\ InitApp
    /\ iris = IrisStart

NextIris == IrisLoad \/ IrisSplit \/ IrisFit \/ IrisScore \/ IrisPrint

SpecIris == InitIris /\ [][NextIris]_vars

(***************************************************************************)
(* Properties                                                              *)
(***************************************************************************)
IsPrefix(a, b) == Len(a) <= Len(b) /\ a = SubSeq(b, 1, Len(a))

RECURSIVE SetSum(_, _)
\* the sum of the ratings of the rows of d at the positions I
SetSum(I, d) ==
    IF I = {} THEN 0
    ELSE LET i == CHOOSE j \in I : TRUE
         IN  d[i].vote_average + SetSum(I \ {i}, d)

\* the positions of the rows of d with value k in column col and a number as rating
Numeric(d, col, k) ==
    { i \in 1 .. Len(d) : d[i][col] = k /\ d[i].vote_average # NaN }

NumericPair(d, g, c) ==
    { i \in 1 .. Len(d) :
        d[i].genre = g /\ d[i].country = c /\ d[i].vote_average # NaN }

\* m is sum / count of the ratings at the positions I, NaN when there are none
IsMeanOf(m, d, I) ==
    IF I = {} THEN m = NaNMean
    ELSE m.den > 0 /\ m.num * Cardinality(I) = SetSum(I, d) * m.den

\* v is sum / count of the ratings at I rounded to hundredths
IsRoundedMeanOf(v, d, I) ==
    IF I = {} THEN v = NaN
    ELSE v = (200 * SetSum(I, d) + Cardinality(I)) \div (2 * Cardinality(I))

Analyzed(t) == ratings[t] # <<>>

Pairs(d) == { <<d[i].genre, d[i].country>> : i \in 1 .. Len(d) }

\* the CSV has a row with a numeric rating, so that no chart raises
HasRatings == DOMAIN pivot_table(load_and_preprocess_data(csv)) # {}

AllCharts == <<"static/genre_ratings.png", "static/genre_country_heatmap.png",
               "static/genre_boxplot.png">>

\* C1: every rendered results page carries exactly the per-genre and the
\* per-country mean of the filtered rows and exactly the three image links,
\* and each linked file was written by the same request before rendering.
C1_ResultsPage ==
    \A r \in Req : page[r] # <<>> =>
        LET p == page[r][1]
            fd == filtered_df[r]
        IN  /\ DOMAIN p = {"genre_ratings", "country_ratings", "images"}
            /\ DOMAIN p.genre_ratings = Keys(fd, "genre")
            /\ \A g \in DOMAIN p.genre_ratings :
                  IsRoundedMeanOf(p.genre_ratings[g], fd, Numeric(fd, "genre", g))
            /\ DOMAIN p.country_ratings = Keys(fd, "country")
            /\ \A c \in DOMAIN p.country_ratings :
                  IsRoundedMeanOf(p.country_ratings[c], fd, Numeric(fd, "country", c))
            /\ p.images = AllCharts
            /\ \A i \in 1 .. 3 : p.images[i] \in saved[r] /\ files[p.images[i]] # <<>>

C1_Witness ==
    \E r \in Req : page[r] # <<>> /\ DOMAIN page[r][1].genre_ratings # {}
                   /\ Len(filtered_df[r]) < Len(df[r])

\* C2 as stated: in each of the three tables every key is one that occurs in
\* the filtered rows and its value is the mean of the ratings of the rows
\* carrying it; every genre and country that occurs has an entry.
C2_Original ==
    \A t \in Req : Analyzed(t) =>
        LET fd == filtered_df[t]
            r == ratings[t][1]
        IN  /\ DOMAIN r.genre_ratings = Keys(fd, "genre")
            /\ \A g \in DOMAIN r.genre_ratings :
                  IsMeanOf(r.genre_ratings[g], fd, Numeric(fd, "genre", g))
            /\ DOMAIN r.country_ratings = Keys(fd, "country")
            /\ \A c \in DOMAIN r.country_ratings :
                  IsMeanOf(r.country_ratings[c], fd, Numeric(fd, "country", c))
            /\ DOMAIN r.genre_country_ratings \subseteq Pairs(fd)
            /\ \A q \in DOMAIN r.genre_country_ratings :
                  IsMeanOf(r.genre_country_ratings[q], fd, NumericPair(fd, q[1], q[2]))

\* C2 (amended): the genre table and the country table have exactly the keys
\* of the filtered rows, each with the mean of the numeric ratings of its rows
\* (NaN when it has none); the genre-country table has a cell for every
\* combination of a genre and a country that each occur in a pair with a
\* numeric rating: the mean of the pair's numeric ratings, NaN for a
\* combination without one.
C2_GroupedMeans ==
    \A t \in Req : Analyzed(t) =>
        LET fd == filtered_df[t]
            r == ratings[t][1]
            rated == { q \in Pairs(fd) : NumericPair(fd, q[1], q[2]) # {} }
        IN  /\ DOMAIN r.genre_ratings = Keys(fd, "genre")
            /\ \A g \in DOMAIN r.genre_ratings :
                  IsMeanOf(r.genre_ratings[g], fd, Numeric(fd, "genre", g))
            /\ DOMAIN r.country_ratings = Keys(fd, "country")
            /\ \A c \in DOMAIN r.country_ratings :
                  IsMeanOf(r.country_ratings[c], fd, Numeric(fd, "country", c))
            /\ DOMAIN r.genre_country_ratings =
                  { q[1] : q \in rated } \X { q[2] : q \in rated }
            /\ \A q \in DOMAIN r.genre_country_ratings :
                  IsMeanOf(r.genre_country_ratings[q], fd, NumericPair(fd, q[1], q[2]))

C2_Witness ==
    /\ Analyzed(1)
    /\ \E q \in DOMAIN ratings[1][1].genre_country_ratings :
          /\ ratings[1][1].genre_country_ratings[q] = NaNMean
          /\ q \notin Pairs(filtered_df[1])
    /\ \E g \in DOMAIN ratings[1][1].genre_ratings :
          ratings[1][1].genre_ratings[g].den = 2

\* C3 as stated: the dataframe load_and_preprocess_data returns has no row
\* with a missing rating, genre or country and no row whose rating is not a
\* number.
C3_NoMalformedRows ==
    \A t \in Threads : \A i \in 1 .. Len(df[t]) :
        /\ df[t][i].vote_average # NaN
        /\ df[t][i].genre # Missing
        /\ df[t][i].country # Missing

\* C4 as stated (for a CSV with ratings): whatever the interleaving, once a
\* request is done its page and the three chart files are those of a lone
\* request over the same CSV.
C4_Isolated ==
    \A r \in Req :
        (HasRatings /\ pc[r].at = "done") =>
              /\ page[r] = << results_html(TemplateContext(
                                 analyze_ratings(Filter(load_and_preprocess_data(csv),
                                                        form[r])))) >>
              /\ \A k \in Charts :
                    files[ChartPath(k)] =
                        << {ChartDraw(k, load_and_preprocess_data(csv))} >>

\* C5: a request whose CSV load failed has rendered no page, computed no
\* table, written no chart file and not created the output directory, and it
\* stands where the exception left it.
C5_LoadFailureHasNoEffect ==
    \A r \in Req : exc[r] = "FileNotFoundError" =>
        /\ pc[r].at = "raised"
        /\ page[r] = <<>>
        /\ ratings[r] = <<>>
        /\ saved[r] = {}
        /\ ~created[r]
        /\ trace[r] = <<>>

C5_Witness ==
    \E r \in Req :
        /\ exc[r] = "FileNotFoundError"
        /\ \A q \in Paths : files[q] # <<>>
        /\ \E o \in Req : pc[o].at = "done"

\* C6: the iris script runs load, split, fit, score, print once each in that
\* order and then stops; it prints at most one line, exactly one once it has
\* stopped, and the line's percentage is correct / total * 100 of the test
\* samples to two decimals, between 0 and 100.
C6_IrisOneShot ==
    /\ IsPrefix(iris.trace, <<"load", "split", "fit", "score", "print">>)
    /\ Len(iris.stdout) <= 1
    /\ iris.pc = "exit" <=> Len(iris.trace) = 5
    /\ iris.pc = "exit" <=> Len(iris.stdout) = 1
    /\ iris.pc = "exit" => ~ ENABLED NextIris
    /\ iris.stdout # <<>> =>
          LET correct == Cardinality({ i \in iris.test : iris.y_pred[i] = iris.y[i] })
              total == Cardinality(iris.test)
              shown == iris.stdout[1].hundredths
          IN  /\ total * 100 = Len(iris.X) * test_size
              /\ correct <= total
              /\ 2 * shown * total - 2 * correct * 10000 <= total
              /\ 2 * correct * 10000 - 2 * shown * total < total
              /\ 0 <= shown /\ shown <= 10000

C6_Witness ==
    /\ iris.pc = "exit"
    /\ iris.stdout[1].hundredths = 6667

\* C7 as stated (for a CSV with ratings): the stages of a request run in the
\* order load, group/average, plot (three charts), serve.
C7_Original ==
    \A r \in Req :
        HasRatings =>
            IsPrefix(trace[r], <<"load", "group", "plot", "plot", "plot", "serve">>)

\* C7 (amended): the stages of a request run in the order load and clean,
\* plot (three charts), group/average, serve: the averages returned to the
\* user are computed after the charts are plotted, and the page is served last.
C7_PipelineOrder ==
    \A r \in Req :
        /\ IsPrefix(trace[r], <<"load", "plot", "plot", "plot", "group", "serve">>)
        /\ Analyzed(r) <=> Len(trace[r]) >= 5
        /\ page[r] # <<>> <=> Len(trace[r]) = 6

C7_Witness ==
    \E r \in Req : Len(trace[r]) = 6 /\ pc[r].at = "done"

\* C8: a row of the cleaned dataframe is in the filtered dataframe exactly
\* when each supplied (non-empty) form field equals the row's value; the
\* filtered rows are rows of the cleaned dataframe, unchanged and in order;
\* with no field supplied the filtered dataframe is the cleaned one.
C8_FilterIsConjunction ==
    \A t \in Req : Analyzed(t) =>
        LET f == form[t]
            fd == filtered_df[t]
            GenreOk(row) == f.genre = None \/ f.genre = <<"">> \/ row.genre = f.genre[1]
            CountryOk(row) ==
                f.country = None \/ f.country = <<"">> \/ row.country = f.country[1]
            In(row) == GenreOk(row) /\ CountryOk(row)
        IN  /\ fd = SelectSeq(df[t], In)
            /\ \A i \in 1 .. Len(df[t]) :
                  (\E j \in 1 .. Len(fd) : fd[j] = df[t][i]) <=> In(df[t][i])
            /\ \A j \in 1 .. Len(fd) : \E i \in 1 .. Len(df[t]) : fd[j] = df[t][i]
            /\ (~ Truthy(f.genre) /\ ~ Truthy(f.country)) => fd = df[t]

C8_Witness ==
    /\ Analyzed(1)
    /\ Truthy(form[1].genre) /\ Truthy(form[1].country)
    /\ Len(filtered_df[1]) = 1
    /\ \E i \in 1 .. Len(df[1]) :
          df[1][i].genre = form[1].genre[1] /\ df[1][i].country # form[1].country[1]
    /\ \E i \in 1 .. Len(df[1]) :
          df[1][i].genre # form[1].genre[1] /\ df[1][i].country = form[1].country[1]

\* C9 as stated (for a CSV with ratings): every chart file a request writes
\* holds the chart of the unfiltered cleaned CSV, whatever the form, so any
\* two requests write the same contents.
C9_SameCharts ==
    [][\A r \in Req :
          (HasRatings /\ pc[r].at = "savefig" /\ pc'[r].at = "close") =>
              files'[ChartPath(pc[r].k)] =
                  << {ChartDraw(pc[r].k, load_and_preprocess_data(csv))} >>]_vars

\* C10: in a loaded dataframe no country is 'United States' or 'United
\* Kingdom': these became 'USA' and 'UK', every other country is as in the
\* CSV, and replacing again changes nothing; filtering by country 'United
\* States' or 'United Kingdom' gives empty genre and country tables, and
\* filtering by country 'USA' selects the loaded rows whose CSV country was
\* 'United States' or 'USA' (and whose genre passes the genre field).
C10_CountryStandardized ==
    \A t \in Req :
        /\ \A i \in 1 .. Len(df[t]) :
              LET row == df[t][i]
                  was == csv[row.idx].country
              IN  /\ row.country \notin {"United States", "United Kingdom"}
                  /\ was = "United States" => row.country = "USA"
                  /\ was = "United Kingdom" => row.country = "UK"
                  /\ was \notin {"United States", "United Kingdom"} => row.country = was
                  /\ replace_country(row.country) = row.country
        /\ (Analyzed(t) /\ form[t].country \in {<<"United States">>, <<"United Kingdom">>}) =>
              /\ DOMAIN ratings[t][1].genre_ratings = {}
              /\ DOMAIN ratings[t][1].country_ratings = {}
        /\ (Analyzed(t) /\ form[t].country = <<"USA">>) =>
              { filtered_df[t][j].idx : j \in 1 .. Len(filtered_df[t]) } =
                  { df[t][i].idx : i \in
                      { i \in 1 .. Len(df[t]) :
                          /\ csv[df[t][i].idx].country \in {"United States", "USA"}
                          /\ (Truthy(form[t].genre) => df[t][i].genre = form[t].genre[1]) } }

C10_Witness ==
    /\ Analyzed(1)
    /\ form[1].country = <<"USA">>
    /\ \E j \in 1 .. Len(filtered_df[1]) :
          csv[filtered_df[1][j].idx].country = "United States"
    /\ \E j \in 1 .. Len(filtered_df[1]) :
          csv[filtered_df[1][j].idx].country = "USA"
    /\ \E i \in 1 .. Len(df[1]) : df[1][i].country = "UK"

====
